---- MODULE Spec2Model ----
(***************************************************************************)
(* PocketbaseArduino: a client (PocketbaseArduino) holding a base URL, and *)
(* per-collection accessors (PocketbaseCollection) with getList, getOne    *)
(* and create.  Strings are TLA+ strings; a nullable const char * is a     *)
(* record [set, val] (Null when the pointer is nullptr).                   *)
(***************************************************************************)
EXTENDS Integers, Sequences, FiniteSets, TLC

VARIABLES
    pb,         \* the client: [baseUrl], set by the constructor
    accessors,  \* the PocketbaseCollection objects made so far, in order
    wifi,       \* what WiFi.status() currently answers
    call        \* the call that has just returned to the caller, or Idle

vars == <<pb, accessors, wifi, call>>

-----------------------------------------------------------------------------
(* Bounds and input domains                                                *)

MaxAccessors == 2

Null == [set |-> FALSE, val |-> ""]
Some(s) == [set |-> TRUE, val |-> s]

BaseUrls == {"http://pb.local:8090", "http://10.0.0.2"}
CollectionNames == {"x", "y"}
Pages == {1, 30}
PerPages == {30, 105}
SortVals == {Null, Some("-created")}
FilterVals == {Null, Some("a=1")}
ExpandVals == {Null, Some("rel")}
FieldsVals == {Null, Some("id,name"), Some("")}
RecordIds == {"r1", "abc"}
JsonDatas == {"{\"a\":1}"}
IdVals == {Null, Some("r1")}
WifiStatuses == {"WL_CONNECTED", "WL_DISCONNECTED"}
\* HTTPClient::GET answers: the server's HTTP status, or a non-positive
\* transport error.
HttpCodes == {-1, 0, 200, 404}
\* Response texts: flat JSON objects whose values are quoted strings or
\* integer literals, and texts that are no JSON at all.
Bodies == {"{\"id\":\"abc\"}",
           "{\"code\":404,\"message\":\"nf\"}",
           "{\"code\":403}",
           "{\"code\":400}",
           "{\"id\":\"r1\",\"code\":404}",
           "{\"id\":\"404\"}",
           ""}

-----------------------------------------------------------------------------
(* Strings                                                                 *)

\* The character of s at i, "" outside the text.
Char(s, i) == IF i >= 1 /\ i <= Len(s) THEN SubSeq(s, i, i) ELSE ""

Digits == <<"0", "1", "2", "3", "4", "5", "6", "7", "8", "9">>

\* String(unsigned int): the decimal text of n.
RECURSIVE ToDecimal(_)
ToDecimal(n) ==
    IF n < 10 THEN Digits[n + 1]
    ELSE ToDecimal(n \div 10) \o Digits[(n % 10) + 1]

-----------------------------------------------------------------------------
(* The client                                                              *)

\* pb.getBaseUrl()
getBaseUrl(p) == p.baseUrl

\* A variant in which every accessor reads the name passed last (one
\* shared name buffer).
collectionSharedName(accs, collectionName) ==
    [i \in 1..(Len(accs) + 1) |-> [collectionName |-> collectionName]]

\* PocketbaseArduino::collection: a new accessor bound to the client and
\* the given name; the accessors made before are left as they are.
collection(accs, collectionName) ==
    Append(accs, [collectionName |-> collectionName])

-----------------------------------------------------------------------------
(* getList                                                                 *)

\* A variant that appends fields before expand.
getListUrlFieldsFirst(p, name, page, perPage, sort, filter, expand, fields, skipTotal) ==
    getBaseUrl(p) \o "/api/collections/" \o name \o "/records"
        \o "?page=" \o ToDecimal(page)
        \o "&perPage=" \o ToDecimal(perPage)
        \o (IF sort.set THEN "&sort=" \o sort.val ELSE "")
        \o (IF filter.set THEN "&filter=" \o filter.val ELSE "")
        \o (IF fields.set THEN "&fields=" \o fields.val ELSE "")
        \o (IF expand.set THEN "&expand=" \o expand.val ELSE "")
        \o (IF skipTotal THEN "&skipTotal=1" ELSE "")

\* The apiUrl getList builds.
getListUrl(p, name, page, perPage, sort, filter, expand, fields, skipTotal) ==
    LET u0 == getBaseUrl(p) \o "/api/collections/" \o name \o "/records"
        u1 == u0 \o "?page=" \o ToDecimal(page)
        u2 == u1 \o "&perPage=" \o ToDecimal(perPage)
        u3 == IF sort.set THEN u2 \o "&sort=" \o sort.val ELSE u2
        u4 == IF filter.set THEN u3 \o "&filter=" \o filter.val ELSE u3
        u5 == IF expand.set THEN u4 \o "&expand=" \o expand.val ELSE u4
        u6 == IF fields.set THEN u5 \o "&fields=" \o fields.val ELSE u5
    IN  IF skipTotal THEN u6 \o "&skipTotal=1" ELSE u6

\* A variant that begins the transport before looking at the WiFi status.
getListTransportBeginsFirst(wifiStatus, httpResponseCode) ==
    IF wifiStatus = "WL_CONNECTED"
    THEN IF httpResponseCode > 0
         THEN <<"begin", "GET", "getString">>
         ELSE <<"begin", "GET", "end">>
    ELSE <<"begin", "end">>

\* A variant that sends the GET again after a failed one.
getListTransportRetries(wifiStatus, httpResponseCode) ==
    IF wifiStatus = "WL_CONNECTED"
    THEN IF httpResponseCode > 0
         THEN <<"begin", "GET", "getString">>
         ELSE <<"begin", "GET", "GET", "end">>
    ELSE <<>>

\* The calls getList makes on the HTTPClient, in order: the success branch
\* returns right after getString, the failure branch falls through to end.
\* (The destructors of the two locals run on every path and are no call of
\* the code's.)
getListTransport(wifiStatus, httpResponseCode) ==
    IF wifiStatus = "WL_CONNECTED"
    THEN IF httpResponseCode > 0
         THEN <<"begin", "GET", "getString">>
         ELSE <<"begin", "GET", "end">>
    ELSE <<>>

\* A variant that takes a status of 0 for a success.
getListReturnZeroOk(wifiStatus, httpResponseCode, body) ==
    IF wifiStatus = "WL_CONNECTED" /\ httpResponseCode >= 0 THEN body ELSE ""

\* What getList returns.
getListReturn(wifiStatus, httpResponseCode, body) ==
    IF wifiStatus = "WL_CONNECTED" /\ httpResponseCode > 0 THEN body ELSE ""

-----------------------------------------------------------------------------
(* getOne                                                                  *)

\* A variant that appends fields only inside the expand branch.
getOneUrlFieldsNeedExpand(p, name, recordId, expand, fields) ==
    LET u0 == getBaseUrl(p) \o "/api/collections/" \o name \o "/records/" \o recordId
    IN  IF expand.set
        THEN u0 \o "?expand=" \o expand.val
                \o (IF fields.set THEN "&fields=" \o fields.val ELSE "")
        ELSE u0

\* The apiUrl getOne builds.
getOneUrl(p, name, recordId, expand, fields) ==
    LET u0 == getBaseUrl(p) \o "/api/collections/" \o name \o "/records/" \o recordId
    IN  IF expand.set
        THEN LET u1 == u0 \o "?expand=" \o expand.val
             IN  IF fields.set THEN u1 \o "&fields=" \o fields.val ELSE u1
        ELSE IF fields.set THEN u0 \o "?fields=" \o fields.val ELSE u0

IsDigit(c) == \E d \in 1..10 : Digits[d] = c

DigitValue(c) == (CHOOSE d \in 1..10 : Digits[d] = c) - 1

\* Index of the quote closing a string whose text starts at i; 0 if none.
RECURSIVE ScanString(_, _)
ScanString(s, i) ==
    IF i > Len(s) THEN 0
    ELSE IF Char(s, i) = "\"" THEN i
    ELSE ScanString(s, i + 1)

\* Index of the first character at or after i that is no digit.
RECURSIVE ScanDigits(_, _)
ScanDigits(s, i) ==
    IF i <= Len(s) /\ IsDigit(Char(s, i)) THEN ScanDigits(s, i + 1) ELSE i

\* The number written by the digits s[i..j].
RECURSIVE DigitsValue(_, _, _)
DigitsValue(s, i, j) ==
    IF j < i THEN 0
    ELSE 10 * DigitsValue(s, i, j - 1) + DigitValue(Char(s, j))

\* The members of a JSON object from position i on: "key":value pairs
\* separated by commas up to the closing brace, a value being a quoted
\* string or an integer literal.  code carries the integer last stored
\* under the key "code".
RECURSIVE ParseMembers(_, _, _)
ParseMembers(s, i, code) ==
    LET k == ScanString(s, i + 1)
        key == SubSeq(s, i + 1, k - 1)
        v == k + 2
        neg == Char(s, v) = "-"
        d == IF neg THEN v + 1 ELSE v
        e == ScanDigits(s, d)
        q == ScanString(s, v + 1)
        isStr == Char(s, v) = "\""
        after == IF isStr THEN q + 1 ELSE e
        value == IF neg THEN 0 - DigitsValue(s, d, e - 1) ELSE DigitsValue(s, d, e - 1)
        code2 == IF key = "code" THEN (IF isStr THEN 0 ELSE value) ELSE code
    IN  IF Char(s, i) # "\"" \/ k = 0 \/ Char(s, k + 1) # ":" THEN [ok |-> FALSE, code |-> 0]
        ELSE IF isStr /\ q = 0 THEN [ok |-> FALSE, code |-> 0]
        ELSE IF ~isStr /\ e = d THEN [ok |-> FALSE, code |-> 0]
        ELSE IF Char(s, after) = "}" THEN [ok |-> TRUE, code |-> code2]
        ELSE IF Char(s, after) = "," THEN ParseMembers(s, after + 1, code2)
        ELSE [ok |-> FALSE, code |-> 0]

\* deserializeJson(jsonResponse, result) followed by
\* jsonResponse["code"].as<int>(): the integer under the top-level key
\* "code", and 0 when the text is no JSON object or has no such key.
JsonCode(result) ==
    IF Len(result) < 2 \/ Char(result, 1) # "{" THEN 0
    ELSE IF Char(result, 2) = "}" THEN 0
    ELSE LET r == ParseMembers(result, 2, 0)
         IN  IF r.ok THEN r.code ELSE 0

\* A variant that throws for every code from 400 on.
getOneRaisesAnyError(code) ==
    IF code = 404 THEN "notFound"
    ELSE IF code >= 400 THEN "forbidden"
    ELSE "none"

\* A variant that knows only the 404 answer.
getOneRaisesOnly404(code) ==
    IF code = 404 THEN "notFound" ELSE "none"

\* The PocketbaseArduinoException getOne throws for a code: "notFound"
\* (The requested resource wasn't found), "forbidden" (Only admins can
\* access this action), or "none".
getOneRaises(code) ==
    IF code = 404 THEN "notFound"
    ELSE IF code = 403 THEN "forbidden"
    ELSE "none"

\* Whether catch (const std::exception &) catches a
\* PocketbaseArduinoException: the class is declared in PocketbaseArduino.h.
caughtAsStdException == TRUE

\* What getOne returns: the result of pb.getRecord, or "" after the catch.
getOneReturn(result, raised) ==
    IF raised = "none" THEN result ELSE ""

-----------------------------------------------------------------------------
(* create                                                                  *)

\* The calls create makes on the client.
createTransport(success) == <<"addRecord">>

\* The arguments create hands to pb.addRecord.
addRecordArgs(name, jsonData, id, expand, fields) ==
    [collectionName |-> name, jsonData |-> jsonData, id |-> id,
     expand |-> expand, fields |-> fields]

\* The exception create throws: "createFailed" when addRecord answered
\* false.
createRaises(success) == IF success THEN "none" ELSE "createFailed"

\* A variant that reports the outcome in the returned text.
createReturnTellsOutcome(success) == IF success THEN "ok" ELSE ""

\* What create returns: "" from the try block on success, "" after the
\* catch on failure.
createReturn(success) == IF success THEN "" ELSE ""

-----------------------------------------------------------------------------
(* The state machine                                                       *)

NoArgs ==
    [page |-> 0, perPage |-> 0, sort |-> Null, filter |-> Null,
     expand |-> Null, fields |-> Null, skipTotal |-> FALSE,
     recordId |-> "", jsonData |-> "", id |-> Null]

NoAddRecord == addRecordArgs("", "", Null, Null, Null)

\* No call has returned that the caller has not yet taken up.
Idle ==
    [op |-> "idle", acc |-> 0, args |-> NoArgs, wifi |-> "WL_DISCONNECTED",
     apiUrl |-> "", transport |-> <<>>, sent |-> NoAddRecord,
     httpResponseCode |-> 0, body |-> "", success |-> FALSE,
     raised |-> "none", caught |-> FALSE, ret |-> ""]

\* PocketbaseArduino(BASE_URL): pb is set from the argument.
Init ==
    /\ \E BASE_URL \in BaseUrls : pb = [baseUrl |-> BASE_URL]
    /\ accessors = <<>>
    /\ wifi \in WifiStatuses
    /\ call = Idle

\* pbClient.collection(collectionName)
Collection ==
    /\ call.op = "idle"
    /\ Len(accessors) < MaxAccessors
    /\ \E collectionName \in CollectionNames :
           accessors' = collection(accessors, collectionName)
    /\ UNCHANGED <<pb, wifi, call>>

\* The link comes up or goes down between calls.
WiFiChanges ==
    /\ call.op = "idle"
    /\ \E w \in WifiStatuses \ {wifi} : wifi' = w
    /\ UNCHANGED <<pb, accessors, call>>

\* accessors[a].getList(page, perPage, sort, filter, expand, fields,
\* skipTotal); the transport answers httpResponseCode to GET and body to
\* getString.
GetList ==
    /\ call.op = "idle"
    /\ \E a \in 1..Len(accessors), page \in Pages, perPage \in PerPages,
          sort \in SortVals, filter \in FilterVals, expand \in ExpandVals,
          fields \in FieldsVals, skipTotal \in BOOLEAN,
          httpResponseCode \in HttpCodes, body \in Bodies :
           call' = [Idle EXCEPT
               !.op = "getList", !.acc = a,
               !.args = [NoArgs EXCEPT !.page = page, !.perPage = perPage,
                            !.sort = sort, !.filter = filter, !.expand = expand,
                            !.fields = fields, !.skipTotal = skipTotal],
               !.wifi = wifi,
               !.apiUrl = getListUrl(pb, accessors[a].collectionName, page, perPage,
                                     sort, filter, expand, fields, skipTotal),
               !.transport = getListTransport(wifi, httpResponseCode),
               !.httpResponseCode = httpResponseCode,
               !.body = body,
               !.ret = getListReturn(wifi, httpResponseCode, body)]
    /\ UNCHANGED <<pb, accessors, wifi>>

\* accessors[a].getOne(recordId, expand, fields); pb.getRecord answers
\* body.
GetOne ==
    /\ call.op = "idle"
    /\ \E a \in 1..Len(accessors), recordId \in RecordIds,
          expand \in ExpandVals, fields \in FieldsVals, body \in Bodies :
           LET raised == getOneRaises(JsonCode(body))
               caught == raised # "none" /\ caughtAsStdException
           IN  call' = [Idle EXCEPT
                   !.op = "getOne", !.acc = a,
                   !.args = [NoArgs EXCEPT !.recordId = recordId,
                                !.expand = expand, !.fields = fields],
                   !.wifi = wifi,
                   !.apiUrl = getOneUrl(pb, accessors[a].collectionName, recordId,
                                        expand, fields),
                   !.transport = <<"getRecord">>,
                   !.body = body,
                   !.raised = raised,
                   !.caught = caught,
                   !.ret = getOneReturn(body, raised)]
    /\ UNCHANGED <<pb, accessors, wifi>>

\* accessors[a].create(jsonData, id, expand, fields); pb.addRecord answers
\* success.
Create ==
    /\ call.op = "idle"
    /\ \E a \in 1..Len(accessors), jsonData \in JsonDatas, id \in IdVals,
          expand \in ExpandVals, fields \in FieldsVals, success \in BOOLEAN :
           call' = [Idle EXCEPT
               !.op = "create", !.acc = a,
               !.args = [NoArgs EXCEPT !.jsonData = jsonData, !.id = id,
                            !.expand = expand, !.fields = fields],
               !.wifi = wifi,
               !.transport = createTransport(success),
               !.sent = addRecordArgs(accessors[a].collectionName, jsonData, id,
                                      expand, fields),
               !.success = success,
               !.raised = createRaises(success),
               !.caught = createRaises(success) # "none",
               !.ret = createReturn(success)]
    /\ UNCHANGED <<pb, accessors, wifi>>

\* The caller takes the returned String and goes on; the call's locals
\* (apiUrl, the WiFiClient, the HTTPClient) are gone.
CallerResumes ==
    /\ call.op # "idle"
    /\ call' = Idle
    /\ UNCHANGED <<pb, accessors, wifi>>

Next ==
    \/ Collection
    \/ WiFiChanges
    \/ GetList
    \/ GetOne
    \/ Create
    \/ CallerResumes

Spec == Init /\ [][Next]_vars

-----------------------------------------------------------------------------
(* Properties                                                              *)

Connected == "WL_CONNECTED"

\* The decimal texts of the page numbers used.
DecimalText == (1 :> "1" @@ 30 :> "30" @@ 105 :> "105")

\* The bodies by the value of their code field.
BodiesCode404 == {"{\"code\":404,\"message\":\"nf\"}", "{\"id\":\"r1\",\"code\":404}"}
BodiesCode403 == {"{\"code\":403}"}

RECURSIVE JoinAmp(_)
JoinAmp(ps) ==
    IF ps = <<>> THEN ""
    ELSE IF Len(ps) = 1 THEN ps[1].k \o "=" \o ps[1].v
    ELSE ps[1].k \o "=" \o ps[1].v \o "&" \o JoinAmp(Tail(ps))

IsSupplied(p) == p.on

\* getList's parameters in their fixed order, each with whether it was
\* supplied.
ListParams(args) ==
    << [k |-> "page", on |-> TRUE, v |-> DecimalText[args.page]],
       [k |-> "perPage", on |-> TRUE, v |-> DecimalText[args.perPage]],
       [k |-> "sort", on |-> args.sort.set, v |-> args.sort.val],
       [k |-> "filter", on |-> args.filter.set, v |-> args.filter.val],
       [k |-> "expand", on |-> args.expand.set, v |-> args.expand.val],
       [k |-> "fields", on |-> args.fields.set, v |-> args.fields.val],
       [k |-> "skipTotal", on |-> args.skipTotal, v |-> "1"] >>

RecordsRoot(a) ==
    pb.baseUrl \o "/api/collections/" \o accessors[a].collectionName \o "/records"

CountOf(seq, x) == Cardinality({i \in 1..Len(seq) : seq[i] = x})

CountChar(s, c) == Cardinality({i \in 1..Len(s) : Char(s, i) = c})

HasPrefix(s, pre) == Len(s) >= Len(pre) /\ SubSeq(s, 1, Len(pre)) = pre

\* C1: the URL getList builds is {base}/api/collections/{name}/records, a
\* "?", and exactly the supplied parameters joined by "&" in the order
\* page, perPage, sort, filter, expand, fields, skipTotal; page and perPage
\* always, each optional one iff supplied, skipTotal only when true and
\* as 1.
C1_GetListQueryExact ==
    call.op = "getList" =>
        call.apiUrl = RecordsRoot(call.acc) \o "?"
                        \o JoinAmp(SelectSeq(ListParams(call.args), IsSupplied))

C1_Witness ==
    /\ call.op = "getList"
    /\ call.args.page = 30 /\ call.args.perPage = 105
    /\ ~call.args.sort.set /\ call.args.filter.set
    /\ call.args.expand.set /\ call.args.fields.set
    /\ call.args.skipTotal

\* C2: the URL getOne builds is {base}/api/collections/{name}/records/{id}
\* followed by ?expand=E&fields=F, ?expand=E, ?fields=F or nothing,
\* according to which of expand and fields are set; it never holds two "?"
\* and no "?&".
C2_GetOneQuery ==
    call.op = "getOne" =>
        LET e == call.args.expand
            f == call.args.fields
            root == RecordsRoot(call.acc) \o "/" \o call.args.recordId
        IN  /\ (e.set /\ f.set) =>
                   call.apiUrl = root \o "?expand=" \o e.val \o "&fields=" \o f.val
            /\ (e.set /\ ~f.set) => call.apiUrl = root \o "?expand=" \o e.val
            /\ (~e.set /\ f.set) => call.apiUrl = root \o "?fields=" \o f.val
            /\ (~e.set /\ ~f.set) => call.apiUrl = root
            /\ CountChar(call.apiUrl, "?") = (IF e.set \/ f.set THEN 1 ELSE 0)
            /\ \A i \in 1..Len(call.apiUrl) :
                   Char(call.apiUrl, i) = "?" => Char(call.apiUrl, i + 1) # "&"

C2_Witness ==
    /\ call.op = "getOne"
    /\ ~call.args.expand.set
    /\ call.args.fields = Some("id,name")

\* C3: getList returns the body as it is whenever the link is up and the
\* status is > 0; getOne returns the body as it is whenever its code field
\* is neither 404 nor 403, a body with no code field included.
C3_BodyReturnedVerbatim ==
    /\ (call.op = "getList" /\ call.wifi = Connected /\ call.httpResponseCode > 0) =>
           call.ret = call.body
    /\ (call.op = "getOne" /\ call.body \notin BodiesCode404 \cup BodiesCode403) =>
           call.ret = call.body

C3_Witness ==
    /\ call.op = "getOne"
    /\ call.body = "{\"id\":\"abc\"}"
    /\ call.ret = "{\"id\":\"abc\"}"

\* C4: a body whose code field is 404 (403) makes getOne raise the
\* not-found (forbidden) error, which is caught inside getOne, and the
\* caller receives "".
C4_GetOneDomainError ==
    call.op = "getOne" =>
        /\ call.body \in BodiesCode404 =>
               call.raised = "notFound" /\ call.caught /\ call.ret = ""
        /\ call.body \in BodiesCode403 =>
               call.raised = "forbidden" /\ call.caught /\ call.ret = ""

C4_Witness ==
    /\ call.op = "getOne"
    /\ call.body = "{\"id\":\"r1\",\"code\":404}"
    /\ call.raised = "notFound"

\* C5: with the link not up, getList calls nothing on the transport and
\* returns "", whatever its arguments.
C5_NoLinkNoTransport ==
    (call.op = "getList" /\ call.wifi # Connected) =>
        call.transport = <<>> /\ call.ret = ""

C5_Witness ==
    /\ call.op = "getList"
    /\ call.wifi # Connected
    /\ call.args.sort.set /\ call.args.skipTotal
    /\ call.httpResponseCode = 200

\* C6: no step changes the client's base URL or an accessor made earlier,
\* and every URL an accessor builds starts with that base URL and the
\* accessor's own collection name.
C6_AccessorsIndependent ==
    [][ /\ pb' = pb
        /\ \A i \in 1..Len(accessors) :
               Len(accessors') >= i /\ accessors'[i] = accessors[i]
        /\ call'.op \in {"getList", "getOne"} =>
               HasPrefix(call'.apiUrl,
                         pb.baseUrl \o "/api/collections/"
                             \o accessors[call'.acc].collectionName \o "/records") ]_vars

C6_Witness ==
    /\ Len(accessors) = 2
    /\ accessors[1].collectionName = "x"
    /\ accessors[2].collectionName = "y"
    /\ call.op = "getList"
    /\ call.acc = 1

C8_BegunIsEnded ==
    (call.op = "getList" /\ CountOf(call.transport, "begin") > 0) =>
        call.transport[Len(call.transport)] = "end"

\* C9: with the link up and a status <= 0, getList reads no body and
\* returns ""; it returns a non-empty string only when the status was > 0.
C9_FailedStatusEmpty ==
    call.op = "getList" =>
        /\ (call.wifi = Connected /\ call.httpResponseCode <= 0) =>
               (CountOf(call.transport, "getString") = 0 /\ call.ret = "")
        /\ call.ret # "" => call.httpResponseCode > 0

C9_Witness ==
    /\ call.op = "getList"
    /\ call.wifi = Connected
    /\ call.httpResponseCode = 0
    /\ call.body # ""
    /\ call.ret = ""

\* C10: a call issues at most one request (one GET for getList, one
\* getRecord for getOne, one addRecord for create), also when it fails.
C10_SingleAttempt ==
    /\ call.op = "getList" =>
           CountOf(call.transport, "GET") = (IF call.wifi = Connected THEN 1 ELSE 0)
    /\ call.op = "getOne" =>
           CountOf(call.transport, "getRecord") = 1 /\ Len(call.transport) = 1
    /\ call.op = "create" =>
           CountOf(call.transport, "addRecord") = 1 /\ Len(call.transport) = 1
    /\ Len(call.transport) <= 3

C10_Witness ==
    /\ call.op = "getList"
    /\ call.wifi = Connected
    /\ call.httpResponseCode = -1
    /\ CountOf(call.transport, "GET") = 1

====
